---- MODULE Spec2Model ----
(***************************************************************************)
(* Model of the runner engine of go-rancher-gen (src/runner.go): the poll  *)
(* loop with version diffing, the topology context builder, the staged     *)
(* write with change detection, and the check/notify orchestration with    *)
(* label-group fanout and per-container command templating.                *)
(*                                                                         *)
(* Text (label selectors, label keys and values, commands) is modelled as  *)
(* a sequence of one-character strings, so that the string operations of   *)
(* the code (Split, Replace, Trim, the token regexp) are computed and not  *)
(* assumed.                                                                *)
(***************************************************************************)
EXTENDS Integers, Sequences, FiniteSets, TLC

VARIABLES
    config,        \* r.Config: [Templates, OneTime]
    meta,          \* the metadata service: index of its current state
    pc,            \* position of the runner in Run / poll / processTemplate
    Version,       \* r.Version
    pollErr,       \* the error value of the poll cycle in progress / last ended
    ctx,           \* the TemplateContext built by poll (line 99)
    tIdx,          \* index of the template being processed (loop of line 106)
    content,       \* rendered bytes of the template being processed
    Staging,       \* t.Staging of the template being processed
    deferRemove,   \* the deferred os.Remove(stagingFile) is registered (line 178)
    toNotify,      \* fanout: the label group (line 190)
    cIdx,          \* fanout: index of the next container of toNotify (line 192)
    files,         \* filesystem: destination path -> file or NoFile
    stagingFiles,  \* filesystem: staging path -> file, for the paths that exist
    stdout,        \* what was written to os.Stdout
    tickerC,       \* a tick is pending on ticker.C
    quitChan,      \* number of signals buffered in r.quitChan
    log,           \* history: what the call of processTemplate in progress, or
                   \* the last one of the cycle, has done
    cycle,         \* history of the poll cycle: [builds, processed, failed]
    retryPending,  \* history: a context build of poll failed and was not retried yet
    fnIn,          \* input of the function under test (function specifications)
    fnOut          \* its result

vars == <<config, meta, pc, Version, pollErr, ctx, tIdx, content, Staging,
          deferRemove, toNotify, cIdx, files, stagingFiles, stdout, tickerC,
          quitChan, log, cycle, retryPending, fnIn, fnOut>>

runnerVars == <<config, meta, pc, Version, pollErr, ctx, tIdx, content, Staging,
                deferRemove, toNotify, cIdx, files, stagingFiles, stdout, tickerC,
                quitChan, log, cycle, retryPending>>

-----------------------------------------------------------------------------
(* Bounds of the model.                                                    *)

\* Longest configured list of templates.
MaxTemplates == 2

\* Staging files that failed writes may leave behind before failures stop
\* being drawn.
MaxLeftover == 1

\* Containers in a snapshot drawn for the label-group function.
MaxContainers == 2

-----------------------------------------------------------------------------
(* Text: Go strings as sequences of characters, and the functions of the   *)
(* strings package the code calls. Indexes are Go's (0-based, -1 = none).  *)

\* s[i:] of Go (i is 0-based)
From(s, i) == SubSeq(s, i + 1, Len(s))

\* strings.HasPrefix(s[i:], sub)
HasPrefixAt(s, sub, i) ==
    /\ i + Len(sub) <= Len(s)
    /\ SubSeq(s, i + 1, i + Len(sub)) = sub

RECURSIVE IndexFrom(_, _, _)
IndexFrom(s, sub, i) ==
    IF i + Len(sub) > Len(s) THEN -1
    ELSE IF HasPrefixAt(s, sub, i) THEN i
    ELSE IndexFrom(s, sub, i + 1)

\* strings.Index
Index(s, sub) == IndexFrom(s, sub, 0)

\* strings.Contains
Contains(s, sub) == Index(s, sub) >= 0

\* strings.Split, for a non-empty separator
RECURSIVE Split(_, _)
Split(s, sep) ==
    LET i == Index(s, sep) IN
    IF i < 0 THEN <<s>>
    ELSE <<SubSeq(s, 1, i)>> \o Split(From(s, i + Len(sep)), sep)

\* strings.SplitAfterN(s, sep, 2)
SplitAfterN2(s, sep) ==
    LET i == Index(s, sep) IN
    IF i < 0 THEN <<s>>
    ELSE <<SubSeq(s, 1, i + Len(sep)), From(s, i + Len(sep))>>

\* strings.Replace(s, old, new, n), for a non-empty old; n < 0 replaces all
RECURSIVE Replace(_, _, _, _)
Replace(s, old, new, n) ==
    LET i == Index(s, old) IN
    IF n = 0 \/ i < 0 THEN s
    ELSE SubSeq(s, 1, i) \o new \o Replace(From(s, i + Len(old)), old, new, n - 1)

RECURSIVE TrimLeft(_, _)
TrimLeft(s, cutset) ==
    IF s # <<>> /\ Head(s) \in cutset THEN TrimLeft(Tail(s), cutset) ELSE s

RECURSIVE TrimRight(_, _)
TrimRight(s, cutset) ==
    IF s # <<>> /\ s[Len(s)] \in cutset
    THEN TrimRight(SubSeq(s, 1, Len(s) - 1), cutset) ELSE s

\* strings.Trim
Trim(s, cutset) == TrimRight(TrimLeft(s, cutset), cutset)

\* The characters of the class [\w\.] of the regexp of parseCmdTemplate.
WordChars ==
    {"a", "b", "c", "d", "e", "f", "g", "h", "i", "j", "k", "l", "m", "n",
     "o", "p", "q", "r", "s", "t", "u", "v", "w", "x", "y", "z",
     "A", "B", "C", "D", "E", "F", "G", "H", "I", "J", "K", "L", "M", "N",
     "O", "P", "Q", "R", "S", "T", "U", "V", "W", "X", "Y", "Z",
     "0", "1", "2", "3", "4", "5", "6", "7", "8", "9", "_"}

TokenChars == WordChars \cup {"."}

\* first index >= i of s (0-based) that holds no token character
RECURSIVE RunEnd(_, _)
RunEnd(s, i) ==
    IF i < Len(s) /\ s[i + 1] \in TokenChars THEN RunEnd(s, i + 1) ELSE i

\* end (exclusive, 0-based) of the match of {{[\w\.]*}} that starts at i, or -1
MatchAt(s, i) ==
    IF HasPrefixAt(s, <<"{", "{">>, i)
    THEN LET j == RunEnd(s, i + 2) IN
         IF HasPrefixAt(s, <<"}", "}">>, j) THEN j + 2 ELSE -1
    ELSE -1

\* reg.FindAll(s, -1): the leftmost non-overlapping matches, in order
RECURSIVE FindAllFrom(_, _)
FindAllFrom(s, i) ==
    IF i >= Len(s) THEN <<>>
    ELSE LET e == MatchAt(s, i) IN
         IF e >= 0 THEN <<SubSeq(s, i + 1, e)>> \o FindAllFrom(s, e)
         ELSE FindAllFrom(s, i + 1)

FindAll(s) == FindAllFrom(s, 0)

\* a token {{key}}
Tok(key) == <<"{", "{">> \o key \o <<"}", "}">>

-----------------------------------------------------------------------------
(* Names and texts of the configuration and of the metadata.               *)

sName == <<"N", "a", "m", "e">>
sAddress == <<"A", "d", "d", "r", "e", "s", "s">>
sStack == <<"S", "t", "a", "c", "k">>
sService == <<"S", "e", "r", "v", "i", "c", "e">>
sHealth == <<"H", "e", "a", "l", "t", "h">>
sState == <<"S", "t", "a", "t", "e">>
sLabels == <<"L", "a", "b", "e", "l", "s">>
sHost == <<"H", "o", "s", "t">>
sStaging == <<"s", "t", "a", "g", "i", "n", "g">>

\* a map with no entry (also the nil map)
EmptyMap == <<>>

\* m[k] of a Go map with string values: the zero value "" for a missing key
MapGet(m, k) == IF k \in DOMAIN m THEN m[k] ELSE <<>>

NoFile == [exists |-> FALSE]
NoCtx == [built |-> FALSE]
NoContainer == [none |-> TRUE]

-----------------------------------------------------------------------------
(* createContext (lines 351-439): the snapshot built from the raw lists.   *)

ZeroHost ==
    [UUID |-> <<>>, Name |-> <<>>, Address |-> <<>>, Hostname |-> <<>>,
     Labels |-> EmptyMap]

\* lines 371-381
ConvertHost(h) ==
    [UUID |-> h.UUID, Name |-> h.Name, Address |-> h.AgentIP,
     Hostname |-> h.Hostname, Labels |-> h.Labels]

ConvertHosts(metaHosts) == [i \in 1..Len(metaHosts) |-> ConvertHost(metaHosts[i])]

\* the last host with the UUID instead of the first
RECURSIVE ResolveHost_Last(_, _)
ResolveHost_Last(hosts, uuid) ==
    IF hosts = <<>> THEN ZeroHost
    ELSE IF hosts[Len(hosts)].UUID = uuid THEN hosts[Len(hosts)]
    ELSE ResolveHost_Last(SubSeq(hosts, 1, Len(hosts) - 1), uuid)

\* lines 394-399: the first host with the UUID, the zero value when there is none
RECURSIVE ResolveHost(_, _)
ResolveHost(hosts, uuid) ==
    IF hosts = <<>> THEN ZeroHost
    ELSE IF Head(hosts).UUID = uuid THEN Head(hosts)
    ELSE ResolveHost(Tail(hosts), uuid)

\* lines 384-401
ConvertContainer(c, hosts) ==
    [Name |-> c.Name, Address |-> c.PrimaryIp, Stack |-> c.StackName,
     Service |-> c.ServiceName, Health |-> c.HealthState, State |-> c.State,
     Labels |-> c.Labels, Host |-> ResolveHost(hosts, c.HostUUID)]

ConvertContainers(metaContainers, hosts) ==
    [i \in 1..Len(metaContainers) |-> ConvertContainer(metaContainers[i], hosts)]

\* lines 442-460
RECURSIVE parseServicePorts(_)
parseServicePorts(ports) ==
    IF ports = <<>> THEN <<>>
    ELSE LET parts == Split(Head(ports), <<":">>)
             parts_ == IF Len(parts) = 2 THEN Split(parts[2], <<"/">>) ELSE <<>>
         IN  (IF Len(parts) = 2 /\ Len(parts_) = 2
              THEN <<[PublicPort |-> parts[1], InternalPort |-> parts_[1],
                      Protocol |-> parts_[2]]>>
              ELSE <<>>)
             \o parseServicePorts(Tail(ports))

\* lines 404-423
ConvertService(s, containers) ==
    [Name |-> s.Name, Stack |-> s.StackName, Kind |-> s.Kind, Vip |-> s.Vip,
     Fqdn |-> s.Fqdn, Labels |-> s.Labels, Metadata |-> s.Metadata,
     Containers |-> SelectSeq(containers,
                      LAMBDA c : c.Stack = s.StackName /\ c.Service = s.Name),
     Ports |-> parseServicePorts(s.Ports)]

ConvertServices(metaServices, containers) ==
    [i \in 1..Len(metaServices) |-> ConvertService(metaServices[i], containers)]

\* createContext when its fetches return the lists of the metadata state m;
\* failAt names the fetch that fails ("none": all four succeed)
createContext(m, failAt) ==
    IF failAt # "none" THEN NoCtx
    ELSE LET hosts == ConvertHosts(m.hosts)
             containers == ConvertContainers(m.containers, hosts)
         IN  [built |-> TRUE,
              Services |-> ConvertServices(m.services, containers),
              Containers |-> containers,
              Hosts |-> hosts,
              Self |-> [Stack |-> m.self.StackName, Service |-> m.self.ServiceName,
                        HostUUID |-> m.self.HostUUID]]

\* the four fetches of createContext, in the order of the code, and "none"
Fetches == {"none", "GetServices", "GetContainers", "GetHosts", "GetSelfContainer"}

-----------------------------------------------------------------------------
(* getLabelGroup (lines 240-281).                                          *)

\* lines 248-257: the label name and the label value of a selector
LabelName(label) == Split(label, <<":">>)[1]

LabelValue(label) ==
    LET split == Split(label, <<":">>) IN
    IF Len(split) > 1 THEN split[2] ELSE <<>>

\* lines 270-277: the container is appended (at most once: a map holds a key once)
InLabelGroup(c, nLabelName, nLabelValue) ==
    \E lbl \in DOMAIN c.Labels :
        /\ lbl = nLabelName
        /\ (nLabelValue = <<>> \/ c.Labels[lbl] = nLabelValue)

\* lines 269-278
ScanContainers(containers, label) ==
    SelectSeq(containers,
              LAMBDA c : InLabelGroup(c, LabelName(label), LabelValue(label)))

\* getLabelGroup, given the result fresh of its call of createContext
getLabelGroup(label, fresh) ==
    IF label = <<>> THEN [toNotify |-> <<>>, err |-> "no label specified"]
    ELSE IF ~fresh.built THEN [toNotify |-> <<>>, err |-> "context"]
    ELSE [toNotify |-> ScanContainers(fresh.Containers, label), err |-> "nil"]

-----------------------------------------------------------------------------
(* parseCmdTemplate (lines 283-311).                                       *)

\* cStruct.Fields(): the fields of Container (lines 385-393, 396)
ContainerFields ==
    {sName, sAddress, sStack, sService, sHealth, sState, sLabels, sHost}

\* cStruct.Field(key).Value().(string): "" when the field holds no string
FieldString(c, key) ==
    CASE key = sName -> c.Name
      [] key = sAddress -> c.Address
      [] key = sStack -> c.Stack
      [] key = sService -> c.Service
      [] key = sHealth -> c.Health
      [] key = sState -> c.State
      [] OTHER -> <<>>

\* lines 290-293
TokenKey(match) ==
    LET key == Trim(match, {"{", "}"}) IN
    IF Index(key, <<".">>) = 0 THEN Replace(key, <<".">>, <<>>, 1) ELSE key

\* lines 295-307: the body of the loop, for one match
SubstituteMatch(c, ret, match) ==
    LET key == TokenKey(match) IN
    IF Contains(key, sLabels \o <<".">>)
    THEN LET labelParts == SplitAfterN2(key, <<".">>)
             label == labelParts[Len(labelParts)]
         IN  Replace(ret, match, MapGet(c.Labels, label), -1)
    ELSE IF key \in ContainerFields
         THEN Replace(ret, match, FieldString(c, key), -1)
         ELSE ret

RECURSIVE SubstituteMatches(_, _, _)
SubstituteMatches(c, ret, matches) ==
    IF matches = <<>> THEN ret
    ELSE SubstituteMatches(c, SubstituteMatch(c, ret, Head(matches)), Tail(matches))

parseCmdTemplate(c, command) == SubstituteMatches(c, command, FindAll(command))

-----------------------------------------------------------------------------
(* Files. A file is [exists, content, mode, uid]; content is a sequence of *)
(* bytes, uid stands for the owner and the group.                          *)

File(c, mode, uid) == [exists |-> TRUE, content |-> c, mode |-> mode, uid |-> uid]

\* mode of a file made by ioutil.TempFile, and the owner of a file the
\* process creates
TempFileMode == "0600"
ProcessUid == "self"

HexDigits == <<"0", "1", "2", "3">>

RECURSIVE SumBytes(_)
SumBytes(c) == IF c = <<>> THEN 0 ELSE Head(c) + SumBytes(Tail(c))

\* fmt.Sprintf("%x", md5 sum) (lines 510-512, 535-540): a text that depends on
\* the bytes alone, is never empty, and has a finite range (so two contents can
\* have one digest)
Md5Hex(c) == <<HexDigits[(SumBytes(c) % Len(HexDigits)) + 1]>>

\* a missing file hashed as an empty one
computeFileMd5_EmptyForMissing(file, readFails) ==
    IF ~file.exists THEN [sum |-> Md5Hex(<<>>), err |-> "nil"]
    ELSE IF readFails THEN [sum |-> <<>>, err |-> "read"]
    ELSE [sum |-> Md5Hex(file.content), err |-> "nil"]

\* computeFileMd5 (lines 524-541); readFails: os.Open or io.Copy fails
computeFileMd5(file, readFails) ==
    IF ~file.exists THEN [sum |-> <<>>, err |-> "nil"]
    ELSE IF readFails THEN [sum |-> <<>>, err |-> "read"]
    ELSE [sum |-> Md5Hex(file.content), err |-> "nil"]

\* sameContent (lines 503-522)
sameContent(c, file, readFails) ==
    LET fileMd5 == computeFileMd5(file, readFails) IN
    IF fileMd5.err # "nil" THEN [same |-> FALSE, err |-> "checksum"]
    ELSE [same |-> (fileMd5.sum = Md5Hex(c)), err |-> "nil"]

StagingPaths(all) == {f.path : f \in all}

StagingAt(all, path) == CHOOSE f \in all : f.path = path

StagingSuffixes == <<"0", "1", "2", "3", "4", "5", "6", "7", "8", "9">>

\* ioutil.TempFile(dir, "."+base+"-") (line 544): a name that is not in use
RECURSIVE TempName(_, _, _)
TempName(destPath, all, i) ==
    LET name == <<".">> \o destPath \o <<"-", StagingSuffixes[i]>> IN
    IF name \in StagingPaths(all) THEN TempName(destPath, all, i + 1) ELSE name

\* the steps of createStagingFile that can fail
StagingSteps(dest) ==
    {"none", "TempFile", "Write"} \cup (IF dest.exists THEN {"Chmod", "Chown"} ELSE {})

\* createStagingFile (lines 543-577): [path, err, staging]; a failure leaves
\* no file behind (none is created, or onErr removes it)
createStagingFile(c, destPath, dest, all, failAt) ==
    IF failAt # "none" THEN [path |-> <<>>, err |-> failAt, staging |-> all]
    ELSE LET name == TempName(destPath, all, 1)
             fp == [path |-> name, content |-> c,
                    mode |-> IF dest.exists THEN dest.mode ELSE TempFileMode,
                    uid |-> IF dest.exists THEN dest.uid ELSE ProcessUid]
         IN  [path |-> name, err |-> "nil", staging |-> all \cup {fp}]

\* outcomes of os.Rename (line 314): success, an error whose text holds
\* "device or resource busy" (the destination is a mount of its own), any
\* other error
RenameOutcomes == {"nil", "device or resource busy", "permission denied"}

\* a fallback taken on any failure of the rename
IsDeviceBusy_AnyError(renameErr) == renameErr # "nil"

\* line 319
IsDeviceBusy(renameErr) == renameErr = "device or resource busy"

\* the steps of the fallback copy that can fail (lines 328-346)
CopySteps == {"none", "ReadFile", "Stat", "OpenFile", "Write", "Chown"}

\* ioutil.WriteFile(destPath, content, perm) (line 338): an existing file keeps
\* its mode and owner, a new one gets perm and the owner of the process
WriteFile(dest, c, perm) ==
    IF dest.exists THEN [dest EXCEPT !.content = c]
    ELSE File(c, perm, ProcessUid)

\* a rename that reports success and leaves the destination as it was
copyStagingToDestination_Lost(stagingPath, dest, all, renameErr, failAt) ==
    [err |-> "nil", how |-> "rename", dest |-> dest,
     staging |-> all \ {StagingAt(all, stagingPath)}]

\* copyStagingToDestination (lines 313-349): [err, dest, staging, how]
copyStagingToDestination(stagingPath, dest, all, renameErr, failAt) ==
    LET sf == StagingAt(all, stagingPath)
        written == WriteFile(dest, sf.content, sf.mode)
    IN
    IF renameErr = "nil"
    THEN [err |-> "nil", how |-> "rename",
          dest |-> File(sf.content, sf.mode, sf.uid),
          staging |-> all \ {sf}]
    ELSE IF ~IsDeviceBusy(renameErr)
    THEN [err |-> renameErr, how |-> "rename", dest |-> dest, staging |-> all]
    ELSE IF failAt \in {"ReadFile", "Stat", "OpenFile"}
    THEN [err |-> failAt, how |-> "copy", dest |-> dest, staging |-> all]
    ELSE IF failAt = "Write"
    THEN [err |-> failAt, how |-> "copy", dest |-> WriteFile(dest, <<>>, sf.mode),
          staging |-> all]
    ELSE IF failAt = "Chown"
    THEN [err |-> failAt, how |-> "copy", dest |-> written, staging |-> all]
    ELSE [err |-> "nil", how |-> "copy", dest |-> [written EXCEPT !.uid = sf.uid],
          staging |-> all]

\* os.Remove(stagingFile) (line 178, deferred)
RemoveStaging(all, path) == {f \in all : f.path # path}

-----------------------------------------------------------------------------
(* runCheckNotify (lines 207-238). checkOk and notifyOk are the outcomes   *)
(* of the shell commands, were they run. The result is [err, events]: the  *)
(* commands run, in order.                                                 *)

\* lines 210-215 and 224-229
ChooseCmd(parsed, configured) == IF parsed # <<>> THEN parsed ELSE configured

\* a failing check that does not return before the notify command
runCheckNotify_NoGate(t, staging, parsedCheck, parsedNotify, checkOk, notifyOk) ==
    LET checkCmd == ChooseCmd(parsedCheck, t.CheckCmd)
        command == Replace(checkCmd, Tok(sStaging), staging, -1)
        notifyCmd == ChooseCmd(parsedNotify, t.NotifyCmd)
        checkEv == IF checkCmd # <<>>
                   THEN <<[op |-> "check", cmd |-> command, ok |-> checkOk]>>
                   ELSE <<>>
        notifyEv == IF notifyCmd # <<>>
                    THEN <<[op |-> "notify", cmd |-> notifyCmd, ok |-> notifyOk]>>
                    ELSE <<>>
    IN
    IF notifyCmd # <<>> /\ ~notifyOk
    THEN [err |-> "notify", events |-> checkEv \o notifyEv]
    ELSE [err |-> "nil", events |-> checkEv \o notifyEv]

runCheckNotify(t, staging, parsedCheck, parsedNotify, checkOk, notifyOk) ==
    LET checkCmd == ChooseCmd(parsedCheck, t.CheckCmd)
        command == Replace(checkCmd, Tok(sStaging), staging, -1)
        notifyCmd == ChooseCmd(parsedNotify, t.NotifyCmd)
        checkEv == IF checkCmd # <<>>
                   THEN <<[op |-> "check", cmd |-> command, ok |-> checkOk]>>
                   ELSE <<>>
        notifyEv == IF notifyCmd # <<>>
                    THEN <<[op |-> "notify", cmd |-> notifyCmd, ok |-> notifyOk]>>
                    ELSE <<>>
    IN
    IF checkCmd # <<>> /\ ~checkOk
    THEN [err |-> "check", events |-> checkEv]
    ELSE IF notifyCmd # <<>> /\ ~notifyOk
    THEN [err |-> "notify", events |-> checkEv \o notifyEv]
    ELSE [err |-> "nil", events |-> checkEv \o notifyEv]

-----------------------------------------------------------------------------
(* The configuration and the environment the runner is checked with.       *)

\* texts of the configuration
d1 == <<"d", "1">>
d2 == <<"d", "2">>
s0 == <<"s", "0">>
s1 == <<"s", "1">>
lblR == <<"r">>
lblB == <<"b">>

Dests == {d1, d2}

Template(src, dst, check, notify, lbl) ==
    [Source |-> src, Dest |-> dst, CheckCmd |-> check, NotifyCmd |-> notify,
     NotifyLbl |-> lbl]

\* the templates a configuration is drawn from:
\*   1  s1 -> d1, check "t {{staging}}", notify "n", direct
\*   2  s1 -> d1, no check, notify "n", direct
\*   3  s0 -> d2, check "t {{.Name}}", notify "{{Labels.b}}", label group "r:w"
\*   4  s1, no destination, check "t", notify "n", direct
TemplateChoices ==
    << Template(s1, d1, <<"t", " ">> \o Tok(sStaging), <<"n">>, <<>>),
       Template(s1, d1, <<>>, <<"n">>, <<>>),
       Template(s0, d2, <<"t", " ">> \o Tok(<<".">> \o sName),
                Tok(sLabels \o <<".">> \o lblB), lblR \o <<":", "w">>),
       Template(s1, <<>>, <<"t">>, <<"n">>, <<>>) >>

\* the sub-lists of list (its order kept) with at most n entries
RECURSIVE SubLists(_, _)
SubLists(list, n) ==
    IF list = <<>> \/ n = 0 THEN {<<>>}
    ELSE SubLists(Tail(list), n)
         \cup {<<Head(list)>> \o q : q \in SubLists(Tail(list), n - 1)}

Configs ==
    [Templates : SubLists(TemplateChoices, MaxTemplates) \ {<<>>}, OneTime : BOOLEAN]

\* raw entries of the metadata service
MetaHost(uuid, name) ==
    [UUID |-> uuid, Name |-> name, AgentIP |-> <<"1">>, Hostname |-> name,
     Labels |-> EmptyMap]

MetaContainer(name, service, hostUUID, labels) ==
    [Name |-> name, PrimaryIp |-> <<"2">>, StackName |-> <<"k">>,
     ServiceName |-> service, HealthState |-> <<>>, State |-> <<"u">>,
     Labels |-> labels, HostUUID |-> hostUUID]

MetaService(name, ports) ==
    [Name |-> name, StackName |-> <<"k">>, Kind |-> <<>>, Vip |-> <<>>,
     Fqdn |-> <<>>, Labels |-> EmptyMap, Metadata |-> EmptyMap, Ports |-> ports]

mc1 == MetaContainer(<<"c", "1">>, <<"a">>, <<"h", "1">>, lblR :> <<"w">>)
mc2 == MetaContainer(<<"c", "2">>, <<"a">>, <<"h", "1">>, lblR :> <<"l">>)
mc3 == MetaContainer(<<"c", "3">>, <<"b">>, <<"h", "2">>,
                     (lblR :> <<"w">>) @@ (lblB :> <<"x">>))

MetaSelf == [StackName |-> <<"k">>, ServiceName |-> <<"a">>, HostUUID |-> <<"h", "1">>]

\* the states the metadata service moves between, each with its own version
MetaStates ==
    << [version |-> "v1",
        services |-> <<MetaService(<<"a">>, << <<"8", ":", "9", "/", "t">>, <<"8">> >>)>>,
        containers |-> <<mc1, mc2, mc3>>,
        hosts |-> <<MetaHost(<<"h", "1">>, <<"x">>)>>,
        self |-> MetaSelf],
       [version |-> "v2",
        services |-> <<MetaService(<<"a">>, <<>>), MetaService(<<"b">>, <<>>)>>,
        containers |-> <<mc3, mc1>>,
        hosts |-> <<MetaHost(<<"h", "1">>, <<"x">>), MetaHost(<<"h", "1">>, <<"y">>)>>,
        self |-> MetaSelf] >>

\* the template engine (lines 135-145): the rendered bytes are a function of
\* the template source and of the snapshot its functions are bound to
Render(source, c) ==
    IF source = s0 /\ Len(c.Containers) > 2 THEN <<>>
    ELSE <<Len(c.Containers)>>

\* a destination that exists before the run: its digest is the one of the
\* rendering <<3>>, its bytes are not
OldFile == File(<<7>>, "0644", "root")

-----------------------------------------------------------------------------
(* The runner: NewRunner, Run, poll, processTemplate as steps.             *)

\* history of a cycle that has done nothing: the calls of createContext, the
\* templates processTemplate was called for, those it returned an error for
NoCycle == [builds |-> 0, processed |-> {}, failed |-> {}]

\* NewRunner (lines 38-58), before Run is called
Init ==
    /\ config \in Configs
    /\ meta \in 1..Len(MetaStates)
    /\ pc = "Run"
    /\ Version = "init"
    /\ pollErr = "nil"
    /\ ctx = NoCtx
    /\ tIdx = 0
    /\ content = <<>>
    /\ Staging = <<>>
    /\ deferRemove = FALSE
    /\ toNotify = <<>>
    /\ cIdx = 0
    /\ \E f \in {NoFile, OldFile} : files = [d \in Dests |-> f]
    /\ stagingFiles = {}
    /\ stdout = <<>>
    /\ tickerC = FALSE
    /\ quitChan = 0
    /\ log = <<>>
    /\ cycle = NoCycle
    /\ retryPending = FALSE
    /\ fnIn = <<>>
    /\ fnOut = <<>>

\* capacity of the signal channel (line 49)
QuitChanCap == 1

Running == pc \notin {"returned", "exited"}

T == config.Templates[tIdx]

Tag(events, c) ==
    [i \in 1..Len(events) |->
        [op |-> events[i].op, cmd |-> events[i].cmd, ok |-> events[i].ok,
         t |-> tIdx, c |-> c]]

\* Run, lines 60-68: both modes start with a poll cycle
Run_Start ==
    /\ pc = "Run"
    /\ pc' = "poll"
    /\ UNCHANGED <<config, meta, Version, pollErr, ctx, tIdx, content, Staging,
                   deferRemove, toNotify, cIdx, files, stagingFiles, stdout,
                   tickerC, quitChan, log, cycle, retryPending, fnIn, fnOut>>

\* the new token compared with the token of NewRunner
VersionUnchanged_Initial(old, new) == new = "init"

\* line 91
VersionUnchanged(old, new) == old = new

\* the variables of one call of processTemplate, gone when it returns
ResetLocals ==
    /\ content' = <<>>
    /\ Staging' = <<>>
    /\ deferRemove' = FALSE
    /\ toNotify' = <<>>
    /\ cIdx' = 0

\* a loop that a failed cycle ends: Run returns the error of poll
PollReturns_EndsRun(err) ==
    /\ pc' = IF err = "nil" THEN "select" ELSE "returned"
    /\ pollErr' = err
    /\ ctx' = NoCtx
    /\ tIdx' = 0

\* poll returns err (lines 88, 93, 102, 108, 118): its variables are gone
PollReturns(err) ==
    /\ pc' = "select"
    /\ pollErr' = err
    /\ ctx' = NoCtx
    /\ tIdx' = 0

\* poll, lines 84-98
poll_GetVersion ==
    /\ pc = "poll"
    /\ \E failed \in BOOLEAN :
        LET newVersion == MetaStates[meta].version IN
        IF failed
        THEN PollReturns("version") /\ UNCHANGED Version
        ELSE IF VersionUnchanged(Version, newVersion)
        THEN PollReturns("nil") /\ UNCHANGED Version
        ELSE /\ pc' = "createContext"
             /\ Version' = newVersion
             /\ UNCHANGED <<pollErr, ctx, tIdx>>
    /\ UNCHANGED <<config, meta, content, Staging, deferRemove, toNotify, cIdx,
                   files, stagingFiles, stdout, tickerC, quitChan, log, cycle,
                   retryPending, fnIn, fnOut>>

\* poll, lines 99-106
poll_createContext ==
    /\ pc = "createContext"
    /\ \E failAt \in Fetches :
        LET built == createContext(MetaStates[meta], failAt) IN
        /\ cycle' = [cycle EXCEPT !.builds = @ + 1]
        /\ IF ~built.built
           THEN PollReturns("context") /\ retryPending' = TRUE
           ELSE /\ retryPending' = FALSE
                /\ IF config.Templates = <<>>
                   THEN PollReturns("nil")
                   ELSE /\ pc' = "processTemplate"
                        /\ ctx' = built
                        /\ tIdx' = 1
                        /\ UNCHANGED pollErr
    /\ UNCHANGED <<config, meta, Version, content, Staging, deferRemove, toNotify,
                   cIdx, files, stagingFiles, stdout, tickerC, quitChan, log, fnIn,
                   fnOut>>

\* poll, lines 106-118: processTemplate returned nil; the next template, or
\* the end of the cycle
TemplateDone ==
    /\ ResetLocals
    /\ IF tIdx < Len(config.Templates)
       THEN /\ tIdx' = tIdx + 1
            /\ pc' = "processTemplate"
            /\ UNCHANGED <<pollErr, ctx>>
       ELSE PollReturns("nil")

\* poll, lines 107-109: processTemplate returned an error, and so does poll
TemplateFailed ==
    /\ ResetLocals
    /\ PollReturns("template")

\* history: processTemplate is called for template t; it returned an error
Called(t) == [cycle EXCEPT !.processed = @ \cup {t}]
Failed(cy, t) == [cy EXCEPT !.failed = @ \cup {t}]

\* processTemplate goes on to its next step
GoesOn(step) ==
    /\ pc' = step
    /\ UNCHANGED <<pollErr, ctx, tIdx>>

\* line 123
HasTemplate(t) == t.Source # <<>> /\ t.Dest # <<>>

\* processTemplate, lines 121-162 and 180-183: render and compare
processTemplate_Render ==
    /\ pc = "processTemplate"
    /\ IF HasTemplate(T)
       THEN \E fatal \in BOOLEAN,
               readFails \in (IF files[T.Dest].exists THEN BOOLEAN ELSE {FALSE}) :
            LET rendered == Render(T.Source, ctx)
                cmp == sameContent(rendered, files[T.Dest], readFails)
            IN
            /\ cycle' = IF ~fatal /\ cmp.err # "nil"
                         THEN Failed(Called(tIdx), tIdx) ELSE Called(tIdx)
            /\ IF fatal
               THEN /\ pc' = "exited"
                    /\ UNCHANGED <<pollErr, ctx, tIdx, content, Staging, deferRemove,
                                   toNotify, cIdx, log, stdout>>
               ELSE IF T.Dest = <<>>
               THEN /\ stdout' = Append(stdout, rendered)
                    /\ log' = <<[op |-> "stdout", t |-> tIdx]>>
                    /\ TemplateDone
               ELSE /\ log' = <<[op |-> "sameContent", t |-> tIdx,
                                  same |-> cmp.same, err |-> cmp.err]>>
                    /\ UNCHANGED stdout
                    /\ IF cmp.err # "nil" THEN TemplateFailed
                       ELSE IF cmp.same THEN TemplateDone
                       ELSE /\ GoesOn("createStagingFile")
                            /\ content' = rendered
                            /\ UNCHANGED <<Staging, deferRemove, toNotify, cIdx>>
       ELSE /\ GoesOn("commands")
            /\ cycle' = Called(tIdx)
            /\ log' = <<>>
            /\ UNCHANGED <<content, Staging, deferRemove, toNotify, cIdx, stdout>>
    /\ UNCHANGED <<config, meta, Version, files, stagingFiles, tickerC, quitChan,
                   retryPending, fnIn, fnOut>>

\* processTemplate, lines 164-169
processTemplate_Staging ==
    /\ pc = "createStagingFile"
    /\ \E failAt \in StagingSteps(files[T.Dest]) :
        LET r == createStagingFile(content, T.Dest, files[T.Dest], stagingFiles, failAt)
        IN
        /\ stagingFiles' = r.staging
        /\ log' = Append(log, [op |-> "createStagingFile", t |-> tIdx,
                               path |-> r.path, err |-> r.err])
        /\ cycle' = IF r.err # "nil" THEN Failed(cycle, tIdx) ELSE cycle
        /\ IF r.err # "nil" THEN TemplateFailed
           ELSE /\ GoesOn("copyStagingToDestination")
                /\ Staging' = r.path
                /\ UNCHANGED <<content, deferRemove, toNotify, cIdx>>
    /\ UNCHANGED <<config, meta, Version, files, stdout, tickerC, quitChan,
                   retryPending, fnIn, fnOut>>

\* processTemplate, lines 171-178
processTemplate_Copy ==
    /\ pc = "copyStagingToDestination"
    /\ \E renameErr \in RenameOutcomes, failAt \in CopySteps :
        LET r == copyStagingToDestination(Staging, files[T.Dest], stagingFiles,
                                          renameErr, failAt)
        IN
        /\ (IsDeviceBusy(renameErr) \/ failAt = "none")
        /\ (r.err = "nil" \/ Cardinality(stagingFiles) <= MaxLeftover)
        /\ files' = [files EXCEPT ![T.Dest] = r.dest]
        /\ stagingFiles' = r.staging
        /\ log' = Append(log, [op |-> "copyStagingToDestination", t |-> tIdx,
                               rename |-> renameErr, how |-> r.how,
                               err |-> r.err])
        /\ cycle' = IF r.err # "nil" THEN Failed(cycle, tIdx) ELSE cycle
        /\ IF r.err # "nil" THEN TemplateFailed
           ELSE /\ GoesOn("commands")
                /\ deferRemove' = TRUE
                /\ UNCHANGED <<content, Staging, toNotify, cIdx>>
    /\ UNCHANGED <<config, meta, Version, stdout, tickerC, quitChan, retryPending,
                   fnIn, fnOut>>

\* line 178, deferred: runs when processTemplate returns from line 204
DeferredRemove ==
    stagingFiles' = IF deferRemove THEN RemoveStaging(stagingFiles, Staging)
                    ELSE stagingFiles

\* a processTemplate that returns the error of its commands
processTemplate_Result_OfCommands(err) == err

\* lines 187 and 204: the error of runCheckNotify is dropped, processTemplate
\* returns nil
processTemplate_Result(err) == "nil"

\* processTemplate, lines 185-187 and 204: direct mode
processTemplate_Direct ==
    /\ pc = "commands"
    /\ T.NotifyLbl = <<>>
    /\ \E checkOk \in BOOLEAN, notifyOk \in BOOLEAN :
        LET r == runCheckNotify(T, Staging, <<>>, <<>>, checkOk, notifyOk) IN
        /\ log' = log \o <<[op |-> "runCheckNotify", t |-> tIdx, c |-> NoContainer,
                            err |-> r.err]>>
                      \o Tag(r.events, NoContainer)
        /\ IF processTemplate_Result(r.err) = "nil"
           THEN TemplateDone ELSE TemplateFailed
    /\ DeferredRemove
    /\ UNCHANGED <<config, meta, Version, files, stdout, tickerC, quitChan,
                   cycle,
                   retryPending, fnIn, fnOut>>

\* processTemplate, lines 188-190: the label group of the template
processTemplate_GetLabelGroup ==
    /\ pc = "commands"
    /\ T.NotifyLbl # <<>>
    /\ \E failAt \in Fetches :
        LET fresh == createContext(MetaStates[meta], failAt)
            group == getLabelGroup(T.NotifyLbl, fresh)
        IN
        /\ toNotify' = group.toNotify
        /\ log' = Append(log, [op |-> "createContext", by |-> "getLabelGroup",
                               t |-> tIdx, m |-> meta, ok |-> fresh.built])
    /\ cycle' = [cycle EXCEPT !.builds = @ + 1]
    /\ cIdx' = 1
    /\ GoesOn("fanout")
    /\ UNCHANGED <<config, meta, Version, content, Staging, deferRemove, files,
                   stagingFiles, stdout, tickerC, quitChan, retryPending, fnIn, fnOut>>

\* a loop that ends at the first failing pair
FanoutGoesOn_UntilError(err) == err = "nil"

\* lines 197-200: the error of a pair is dropped and the loop goes on
FanoutGoesOn(err) == TRUE

\* processTemplate, lines 192-201: one iteration of the fanout loop
processTemplate_Fanout ==
    /\ pc = "fanout"
    /\ cIdx <= Len(toNotify)
    /\ \E checkOk \in BOOLEAN, notifyOk \in BOOLEAN :
        LET c == toNotify[cIdx]
            parsedCheck == parseCmdTemplate(c, T.CheckCmd)
            parsedNotify == parseCmdTemplate(c, T.NotifyCmd)
            r == runCheckNotify(T, Staging, parsedCheck, parsedNotify, checkOk, notifyOk)
        IN
        /\ log' = log \o <<[op |-> "runCheckNotify", t |-> tIdx, c |-> c,
                            err |-> r.err]>>
                      \o Tag(r.events, c)
        /\ IF FanoutGoesOn(r.err)
           THEN cIdx' = cIdx + 1
           ELSE cIdx' = Len(toNotify) + 1
    /\ UNCHANGED <<config, meta, pc, Version, pollErr, ctx, tIdx, content, Staging,
                   deferRemove, toNotify, files, stagingFiles, stdout, tickerC,
                   quitChan, cycle,
                   retryPending, fnIn, fnOut>>

\* processTemplate, line 204, when the fanout loop is done
processTemplate_Return ==
    /\ pc = "fanout"
    /\ cIdx > Len(toNotify)
    /\ DeferredRemove
    /\ TemplateDone
    /\ UNCHANGED <<config, meta, Version, files, stdout, tickerC, quitChan, log, cycle,
                   retryPending, fnIn, fnOut>>

\* Run, lines 61-64: one-shot mode returns the error of its poll cycle
Run_OneTime ==
    /\ pc = "select"
    /\ config.OneTime
    /\ pc' = "returned"
    /\ UNCHANGED <<config, meta, Version, pollErr, ctx, tIdx, content, Staging,
                   deferRemove, toNotify, cIdx, files, stagingFiles, stdout,
                   tickerC, quitChan, log, cycle, retryPending, fnIn, fnOut>>

\* Run, lines 74-75: the tick is received, the loop starts the next cycle
Run_Tick ==
    /\ pc = "select"
    /\ ~config.OneTime
    /\ tickerC
    /\ tickerC' = FALSE
    /\ pc' = "poll"
    /\ pollErr' = "nil"
    /\ log' = <<>>
    /\ cycle' = NoCycle
    /\ UNCHANGED <<config, meta, Version, ctx, tIdx, content, Staging,
                   deferRemove, toNotify, cIdx, files, stagingFiles, stdout,
                   quitChan, retryPending, fnIn, fnOut>>

\* Run, lines 76-78: a signal is received, Run returns nil
Run_Quit ==
    /\ pc = "select"
    /\ ~config.OneTime
    /\ quitChan > 0
    /\ quitChan' = quitChan - 1
    /\ pc' = "returned"
    /\ pollErr' = "nil"
    /\ UNCHANGED <<config, meta, Version, ctx, tIdx, content, Staging,
                   deferRemove, toNotify, cIdx, files, stagingFiles, stdout,
                   tickerC, log, cycle, retryPending, fnIn, fnOut>>

\* the ticker of line 67 fires; a tick that finds one pending is dropped
Tick ==
    /\ Running
    /\ pc # "Run"
    /\ ~config.OneTime
    /\ ~tickerC
    /\ tickerC' = TRUE
    /\ UNCHANGED <<config, meta, pc, Version, pollErr, ctx, tIdx, content, Staging,
                   deferRemove, toNotify, cIdx, files, stagingFiles, stdout,
                   quitChan, log, cycle, retryPending, fnIn, fnOut>>

\* SIGINT, SIGTERM or SIGQUIT is delivered (line 50); it is dropped when the
\* channel is full
Signal ==
    /\ Running
    /\ quitChan < QuitChanCap
    /\ quitChan' = quitChan + 1
    /\ UNCHANGED <<config, meta, pc, Version, pollErr, ctx, tIdx, content, Staging,
                   deferRemove, toNotify, cIdx, files, stagingFiles, stdout,
                   tickerC, log, cycle, retryPending, fnIn, fnOut>>

\* the metadata service moves to another state
MetadataChange ==
    /\ Running
    /\ \E m \in 1..Len(MetaStates) : m # meta /\ meta' = m
    /\ UNCHANGED <<config, pc, Version, pollErr, ctx, tIdx, content, Staging,
                   deferRemove, toNotify, cIdx, files, stagingFiles, stdout,
                   tickerC, quitChan, log, cycle, retryPending, fnIn, fnOut>>

Next ==
    \/ Run_Start
    \/ poll_GetVersion
    \/ poll_createContext
    \/ processTemplate_Render
    \/ processTemplate_Staging
    \/ processTemplate_Copy
    \/ processTemplate_Direct
    \/ processTemplate_GetLabelGroup
    \/ processTemplate_Fanout
    \/ processTemplate_Return
    \/ Run_OneTime
    \/ Run_Tick
    \/ Run_Quit
    \/ Tick
    \/ Signal
    \/ MetadataChange

Spec == Init /\ [][Next]_vars

-----------------------------------------------------------------------------
(* The interval loop when nothing fails: every fetch, file operation and   *)
(* command succeeds, no signal arrives, the ticker keeps firing and the    *)
(* runner keeps taking its steps. The metadata may change at any time.     *)

\* the step has no failure in it
AllSucceed ==
    /\ pollErr' = "nil"
    /\ pc' # "exited"
    /\ \A i \in DOMAIN log' :
        /\ log'[i].op \in {"check", "notify", "createContext"} => log'[i].ok
        /\ log'[i].op = "copyStagingToDestination" => log'[i].rename = "nil"

InitLive ==
    /\ Init
    /\ ~config.OneTime
    /\ files = [d \in Dests |-> NoFile]

\* the steps of Run, poll and processTemplate, but for the fanout loop
LiveStep ==
    /\ \/ Run_Start
       \/ poll_GetVersion
       \/ poll_createContext
       \/ processTemplate_Render
       \/ processTemplate_Staging
       \/ processTemplate_Copy
       \/ processTemplate_Direct
       \/ processTemplate_GetLabelGroup
       \/ processTemplate_Return
       \/ Run_Tick
    /\ AllSucceed

\* the fanout loop has an iteration to run (lines 192-201)
FanoutPending == pc = "fanout" /\ cIdx <= Len(toNotify)

NextLive ==
    \/ Run_Start /\ AllSucceed
    \/ poll_GetVersion /\ AllSucceed
    \/ poll_createContext /\ AllSucceed
    \/ processTemplate_Render /\ AllSucceed
    \/ processTemplate_Staging /\ AllSucceed
    \/ processTemplate_Copy /\ AllSucceed
    \/ processTemplate_Direct /\ AllSucceed
    \/ processTemplate_GetLabelGroup /\ AllSucceed
    \/ processTemplate_Fanout /\ AllSucceed
    \/ processTemplate_Return /\ AllSucceed
    \/ Run_Tick /\ AllSucceed
    \/ Tick
    \/ MetadataChange

\* The runner keeps taking its steps and the ticker keeps firing. For the
\* fanout loop, whose commands end, weak fairness is stated by its enabling
\* condition: the loop is not left pending for ever.
SpecLive ==
    /\ InitLive
    /\ [][NextLive]_vars
    /\ WF_vars(LiveStep)
    /\ WF_vars(Tick)
    /\ []<>(~FanoutPending)

-----------------------------------------------------------------------------
(* getLabelGroup as a function: a selector and a snapshot's containers are *)
(* drawn, the function is applied once.                                    *)

\* "r", "r:w", "r:w:x", "b"
LabelChoices ==
    {lblR, lblR \o <<":", "w">>, lblR \o <<":", "w", ":", "x">>, lblB}

LabelMaps ==
    {EmptyMap, lblR :> <<"w">>, lblR :> <<"l">>, lblR :> <<"w", ":", "x">>,
     lblB :> <<"w">>}

RECURSIVE SeqsUpTo(_, _)
SeqsUpTo(S, n) ==
    IF n = 0 THEN {<<>>}
    ELSE LET shorter == SeqsUpTo(S, n - 1) IN
         shorter \cup {Append(q, x) : q \in shorter, x \in S}

LabelledContainers ==
    {ConvertContainer(MetaContainer(<<"c">>, <<"a">>, <<"h", "1">>, m), <<>>) :
        m \in LabelMaps}

NotApplied == [applied |-> FALSE]

\* the runner's variables, for a specification of a function alone
RunnerIdle ==
    /\ config = [Templates |-> <<>>, OneTime |-> TRUE]
    /\ meta = 1
    /\ pc = "returned"
    /\ Version = "init"
    /\ pollErr = "nil"
    /\ ctx = NoCtx
    /\ tIdx = 0
    /\ content = <<>>
    /\ Staging = <<>>
    /\ deferRemove = FALSE
    /\ toNotify = <<>>
    /\ cIdx = 0
    /\ files = [d \in Dests |-> NoFile]
    /\ stagingFiles = {}
    /\ stdout = <<>>
    /\ tickerC = FALSE
    /\ quitChan = 0
    /\ log = <<>>
    /\ cycle = NoCycle
    /\ retryPending = FALSE

InitLabel ==
    /\ RunnerIdle
    /\ fnIn \in [label : LabelChoices,
                 containers : SeqsUpTo(LabelledContainers, MaxContainers)]
    /\ fnOut = NotApplied

\* getLabelGroup (lines 240-281) on the drawn input; its call of createContext
\* returns the drawn containers, or fails
getLabelGroup_Apply ==
    /\ ~fnOut.applied
    /\ \E fetched \in BOOLEAN :
        LET fresh == IF fetched
                     THEN [built |-> TRUE, Containers |-> fnIn.containers]
                     ELSE NoCtx
            r == getLabelGroup(fnIn.label, fresh)
        IN  fnOut' = [applied |-> TRUE, fetched |-> fetched,
                      toNotify |-> r.toNotify, err |-> r.err]
    /\ UNCHANGED <<fnIn, runnerVars>>

NextLabel == getLabelGroup_Apply

SpecLabel == InitLabel /\ [][NextLabel]_vars

-----------------------------------------------------------------------------
(* createContext as a function: the lists the four fetches return are      *)
(* drawn, the function is applied once, with the fetch that fails drawn.   *)

hx == MetaHost(<<"h", "1">>, <<"x">>)
hy == MetaHost(<<"h", "1">>, <<"y">>)
hz == MetaHost(<<"h", "2">>, <<"x">>)

HostChoices == {<<>>, <<hx, hy>>, <<hz, hy, hx>>}

\* containers of service a or b, of stack k or j, on host h1, h2 or h3
ContainerKinds ==
    {MetaContainer(<<"c">>, <<"a">>, <<"h", "1">>, EmptyMap),
     MetaContainer(<<"c">>, <<"b">>, <<"h", "2">>, EmptyMap),
     MetaContainer(<<"c">>, <<"a">>, <<"h", "3">>, EmptyMap),
     [MetaContainer(<<"c">>, <<"a">>, <<"h", "1">>, EmptyMap)
        EXCEPT !.StackName = <<"j">>]}

ServiceChoices ==
    {<<MetaService(<<"a">>, <<>>)>>,
     <<MetaService(<<"b">>, <<>>), MetaService(<<"a">>, <<>>)>>}

InitContext ==
    /\ RunnerIdle
    /\ fnIn \in [services : ServiceChoices,
                 containers : SeqsUpTo(ContainerKinds, MaxContainers),
                 hosts : HostChoices,
                 self : {MetaSelf}]
    /\ fnOut = NotApplied

\* createContext (lines 351-439) on the drawn lists
createContext_Apply ==
    /\ ~fnOut.applied
    /\ \E failAt \in Fetches :
        fnOut' = [applied |-> TRUE, failAt |-> failAt,
                  ctx |-> createContext(fnIn, failAt)]
    /\ UNCHANGED <<fnIn, runnerVars>>

NextContext == createContext_Apply

SpecContext == InitContext /\ [][NextContext]_vars

-----------------------------------------------------------------------------
(* parseCmdTemplate as a function: a container and a command are drawn,    *)
(* the function is applied once.                                           *)

sp == <<" ">>
sFoo == <<"F", "o", "o">>

\* "e {{Name}}", "e {{.Name}} {{State}}", "{{Labels.b}}",
\* "e {{Labels.b}} {{Name}}{{Name}}", "e {{Foo}} {{staging}}",
\* "e {{xLabels.b}}", "e {{Name} }", "e"
CmdChoices ==
    {<<"e">> \o sp \o Tok(sName),
     <<"e">> \o sp \o Tok(<<".">> \o sName) \o sp \o Tok(sState),
     Tok(sLabels \o <<".">> \o lblB),
     <<"e">> \o sp \o Tok(sLabels \o <<".">> \o lblB) \o sp \o Tok(sName) \o Tok(sName),
     <<"e">> \o sp \o Tok(sFoo) \o sp \o Tok(sStaging),
     <<"e">> \o sp \o Tok(<<"x">> \o sLabels \o <<".">> \o lblB),
     <<"e">> \o sp \o <<"{", "{">> \o sName \o <<"}", " ", "}">>,
     <<"e">>}

CmdContainers ==
    {ConvertContainer(MetaContainer(n, <<"a">>, <<"h", "1">>, m), <<>>) :
        n \in {<<"c">>, <<"d", "1">>},
        m \in {EmptyMap, lblB :> <<"x">>, lblB :> <<"y", "z">>, lblR :> <<"w">>}}

InitCmd ==
    /\ RunnerIdle
    /\ fnIn \in [c : CmdContainers, command : CmdChoices]
    /\ fnOut = NotApplied

\* parseCmdTemplate (lines 283-311) on the drawn input
parseCmdTemplate_Apply ==
    /\ ~fnOut.applied
    /\ fnOut' = [applied |-> TRUE, ret |-> parseCmdTemplate(fnIn.c, fnIn.command)]
    /\ UNCHANGED <<fnIn, runnerVars>>

NextCmd == parseCmdTemplate_Apply

SpecCmd == InitCmd /\ [][NextCmd]_vars

-----------------------------------------------------------------------------
(* Properties.                                                             *)

Positions(l, op) == {i \in DOMAIN l : l[i].op = op}

Ops(l, op) == SelectSeq(l, LAMBDA e : e.op = op)

\* the template whose call of processTemplate the log is about
LogT == config.Templates[log[1].t]

\* the call of processTemplate for template k of this cycle has returned
Returned(k) == k \in cycle.processed /\ tIdx # k

\* the step of poll that calls GetVersion; of processTemplate that renders
\* and compares; that writes the destination
GetVersionStep == pc = "poll" /\ pc' # "poll"
RenderStep == pc = "processTemplate" /\ cycle' # cycle
CopyStep == pc = "copyStagingToDestination" /\ pc' # pc

\* C1: a poll cycle whose GetVersion returns the recorded version ends at
\* once: no context is built, no template is processed, no file is written,
\* no command runs, and the recorded version stays.
C1_EqualVersionIsNoOp ==
    [][ (GetVersionStep /\ pollErr' # "version"
         /\ MetaStates[meta].version = Version)
        => /\ pc' = "select"
           /\ pollErr' = "nil"
           /\ Version' = Version
           /\ files' = files
           /\ stagingFiles' = stagingFiles
           /\ stdout' = stdout
           /\ log' = <<>>
           /\ cycle' = NoCycle ]_vars

\* a cycle has ended on an unchanged version, after an earlier one recorded it
C1_Witness ==
    /\ pc = "select"
    /\ pollErr = "nil"
    /\ cycle = NoCycle
    /\ Version = MetaStates[meta].version

\* C2: after a cycle that failed in the context build, the next cycle whose
\* GetVersion succeeds builds the context again, and processes the templates
\* when the build succeeds, whether the version changed or not.
C2_ContextBuildRetried ==
    [][ /\ (GetVersionStep /\ retryPending /\ pollErr' # "version")
            => pc' = "createContext"
        /\ (pc = "createContext" /\ pc' # pc /\ pollErr' = "nil"
            /\ config.Templates # <<>>)
            => (pc' = "processTemplate" /\ tIdx' = 1) ]_vars

\* C3: in a cycle, every template configured after one whose processing
\* failed with a per-template error is still processed.
C3_LaterTemplatesProcessed ==
    pc = "select" =>
        \A k \in cycle.failed :
            \A j \in (k + 1)..Len(config.Templates) : j \in cycle.processed

\* C4: for a template with a source and a destination, a rendering whose
\* digest equals the digest of the destination file ends the processing of
\* the template at once (no staging file, no write, no check, no notify, in
\* direct and in fanout mode); with no destination file the content counts as
\* changed, whatever the rendered bytes.
C4_SameDigestSkips ==
    [][ (RenderStep /\ HasTemplate(T) /\ pc' # "exited")
        => LET dest == files[T.Dest]
               rendered == Render(T.Source, ctx)
           IN
           /\ ~dest.exists
                => (pc' = "createStagingFile" /\ content' = rendered)
           /\ (dest.exists /\ log'[1].err = "nil"
               /\ Md5Hex(dest.content) = Md5Hex(rendered))
                => /\ pc' \in {"processTemplate", "select"}
                   /\ pc' = "processTemplate" => tIdx' = tIdx + 1
                   /\ pc' = "select" => pollErr' = "nil"
                   /\ files' = files
                   /\ stagingFiles' = stagingFiles
                   /\ Len(log') = 1 ]_vars

\* a template with a label group was found up to date, and nothing but the
\* comparison was done for it
C4_Witness ==
    /\ pc \in {"processTemplate", "select"}
    /\ Len(log) = 1
    /\ log[1].op = "sameContent"
    /\ log[1].same
    /\ LogT.NotifyLbl # <<>>

\* C5: for a template with a source and no destination, processTemplate
\* renders, writes the rendering to standard output, and runs no command and
\* makes no staging file.
C5_PrintMode ==
    \A k \in cycle.processed :
        LET t == config.Templates[k] IN
        (t.Source # <<>> /\ t.Dest = <<>> /\ Returned(k))
            => /\ stdout # <<>>
               /\ (log # <<>> /\ log[1].t = k)
                    => \A i \in DOMAIN log : log[i].op = "stdout"

\* the destination of the template of the log was updated, in direct mode,
\* and its commands are done
DirectUpdated ==
    /\ log # <<>>
    /\ LogT.NotifyLbl = <<>>
    /\ \E i \in DOMAIN log :
        log[i].op = "copyStagingToDestination" /\ log[i].err = "nil"
    /\ Positions(log, "runCheckNotify") # {}

\* C6: in direct mode, for a template whose destination was updated, the
\* check command runs at most once (once when it is configured) and before
\* the notify command; the notify command runs once when the check command is
\* empty or succeeds, and not at all when the check command fails.
C6_DirectCheckGatesNotify ==
    DirectUpdated =>
        LET checks == Positions(log, "check")
            notifies == Positions(log, "notify")
            passed == \A i \in checks : log[i].ok
        IN
        /\ Cardinality(checks) = IF LogT.CheckCmd = <<>> THEN 0 ELSE 1
        /\ \A i \in checks, j \in notifies : i < j
        /\ Cardinality(notifies) =
               IF passed /\ LogT.NotifyCmd # <<>> THEN 1 ELSE 0

\* direct mode, destination updated, the check ran and passed, notify ran once
C6_Witness ==
    /\ DirectUpdated
    /\ \E i \in Positions(log, "check") : log[i].ok
    /\ Cardinality(Positions(log, "notify")) = 1

\* a container matches a selector: "name" matches a label name with any
\* value, "name:value" a label name whose value is the text after the first
\* colon
SelectorMatches(label, c) ==
    LET i == Index(label, <<":">>)
        name == IF i < 0 THEN label ELSE SubSeq(label, 1, i)
        value == IF i < 0 THEN <<>> ELSE From(label, i + 1)
    IN  /\ name \in DOMAIN c.Labels
        /\ (value = <<>> \/ c.Labels[name] = value)

\* the snapshot getLabelGroup built for the template of the log
FanoutSnapshot ==
    LET e == Ops(log, "createContext")[1] IN
    createContext(MetaStates[e.m], "none").Containers

FanoutBuilt == pc = "fanout" /\ Ops(log, "createContext")[1].ok

\* C7: in fanout mode the check/notify pair is executed once per container of
\* the snapshot the selector matches, in the snapshot's order, for no other
\* container; and every command executed for a container is the configured
\* command with that container's values substituted for its tokens.
C7_FanoutPerContainer ==
    FanoutBuilt =>
        LET pairs == Ops(log, "runCheckNotify") IN
        /\ cIdx > Len(toNotify)
            => [i \in 1..Len(pairs) |-> pairs[i].c]
                 = SelectSeq(FanoutSnapshot,
                             LAMBDA c : SelectorMatches(T.NotifyLbl, c))
        /\ \A i \in DOMAIN log :
            /\ log[i].op = "check"
                => log[i].cmd = Replace(parseCmdTemplate(log[i].c, T.CheckCmd),
                                        Tok(sStaging), Staging, -1)
            /\ log[i].op = "notify"
                => log[i].cmd = parseCmdTemplate(log[i].c, T.NotifyCmd)

\* C8: getLabelGroup returns exactly the containers of the snapshot that match
\* the selector, the value of "name:value" being all the text after the first
\* colon.
C8_LabelGroupIsTheMatches ==
    (fnOut.applied /\ fnOut.fetched)
        => fnOut.toNotify
             = SelectSeq(fnIn.containers,
                         LAMBDA c : SelectorMatches(fnIn.label, c))

\* position in the log of the k-th pair of the fanout, and the events of it
PairPos(k) ==
    CHOOSE p \in Positions(log, "runCheckNotify") :
        Cardinality({q \in Positions(log, "runCheckNotify") : q <= p}) = k

PairEvents(k, op) ==
    {i \in Positions(log, op) :
        /\ i > PairPos(k)
        /\ \A q \in Positions(log, "runCheckNotify") : q > PairPos(k) => i < q}

\* C9: in a fanout every container of the label group has its pair, whatever
\* the outcome of the pairs before it: its check runs, its notify runs when its
\* own check passes and does not run when its own check fails.
C9_FanoutPairsIndependent ==
    pc = "fanout" =>
        /\ Cardinality(Positions(log, "runCheckNotify")) = cIdx - 1
        /\ cIdx <= Len(toNotify) + 1
        /\ \A k \in 1..(cIdx - 1) :
            LET checks == PairEvents(k, "check")
                notifies == PairEvents(k, "notify")
                passed == \A i \in checks : log[i].ok
            IN
            /\ log[PairPos(k)].c = toNotify[k]
            /\ Cardinality(checks) = IF T.CheckCmd = <<>> THEN 0 ELSE 1
            /\ Cardinality(notifies) =
                   IF passed /\ T.NotifyCmd # <<>> THEN 1 ELSE 0

\* a fanout over two containers is done: the check of the first failed and
\* its notify did not run, the second had its check and its notify
C9_Witness ==
    /\ pc = "fanout"
    /\ cIdx = 3
    /\ Len(toNotify) = 2
    /\ \E i \in PairEvents(1, "check") : ~log[i].ok
    /\ PairEvents(1, "notify") = {}
    /\ \E i \in PairEvents(2, "check") : log[i].ok
    /\ PairEvents(2, "notify") # {}

\* the staging file as the destination should hold it
IsCopyOf(dest, sf) ==
    /\ dest.exists
    /\ dest.content = sf.content
    /\ dest.mode = sf.mode
    /\ dest.uid = sf.uid

\* C10 as stated: a rename that fails with the busy class always ends in
\* success with the destination a copy of the staging file; a rename that
\* fails otherwise is returned, the destination unchanged.
C10_FallbackAlwaysSucceeds ==
    [][ CopyStep
        => LET e == log'[Len(log')]
               sf == StagingAt(stagingFiles, Staging)
           IN
           /\ e.rename = "device or resource busy"
                => /\ e.how = "copy"
                   /\ e.err = "nil"
                   /\ IsCopyOf(files'[T.Dest], sf)
           /\ e.rename \notin {"nil", "device or resource busy"}
                => (e.err # "nil" /\ files' = files) ]_vars

\* C10, amended: a rename that fails with the busy class takes the fallback
\* copy; when the read, the stat, the write and the chown of the copy all
\* succeed it returns success with the destination a copy of the staging
\* file, otherwise it returns the error of the failing step; a rename that
\* fails otherwise is returned, the destination unchanged.
C10_FallbackCopies ==
    [][ CopyStep
        => LET e == log'[Len(log')]
               sf == StagingAt(stagingFiles, Staging)
           IN
           /\ e.rename = "device or resource busy"
                => /\ e.how = "copy"
                   /\ e.err \in CopySteps \cup {"nil"}
                   /\ e.err = "nil" => IsCopyOf(files'[T.Dest], sf)
           /\ e.rename \notin {"nil", "device or resource busy"}
                => (e.err = e.rename /\ files' = files) ]_vars

\* the fallback copy has just written a destination that existed before
C10_Witness ==
    /\ pc = "commands"
    /\ log # <<>>
    /\ log[Len(log)].op = "copyStagingToDestination"
    /\ log[Len(log)].how = "copy"
    /\ log[Len(log)].err = "nil"
    /\ files[T.Dest].uid = "root"

\* C11: in interval mode, once a signal is pending, the select of Run that
\* comes next returns nil and starts no poll cycle, whether a tick is pending
\* or not.
C11_SignalEndsAtNextWait ==
    [][ (pc = "select" /\ ~config.OneTime /\ quitChan > 0 /\ pc' # pc)
        => (pc' = "returned" /\ pollErr' = "nil") ]_vars

\* C12: in interval mode Run returns only from its select, on a pending
\* signal, with nil; whatever the error of the poll cycle, the select can take
\* a pending tick, and what it then starts is a poll cycle. In one-shot mode
\* the only poll cycle is the one Run starts with, and Run returns from the
\* end of that cycle with the cycle's error.
C12_PollErrorsKeepLoop ==
    /\ [](pc = "select" /\ ~config.OneTime /\ tickerC => ENABLED Run_Tick)
    /\ [][ /\ (~config.OneTime /\ pc' = "returned" /\ pc # "returned")
                => (pc = "select" /\ quitChan > 0 /\ pollErr' = "nil")
           /\ (~config.OneTime /\ pc = "select" /\ pc' \notin {pc, "returned"})
                => (pc' = "poll" /\ tickerC)
           /\ (config.OneTime /\ pc' = "poll" /\ pc # "poll") => pc = "Run"
           /\ (config.OneTime /\ pc' = "returned" /\ pc # "returned")
                => (pc = "select" /\ pollErr' = pollErr) ]_vars

\* in interval mode a cycle failed in its context build, and a tick has
\* started the next cycle
C12_Witness ==
    /\ ~config.OneTime
    /\ pc = "poll"
    /\ retryPending
    /\ cycle = NoCycle

\* C13: a poll cycle builds the topology context at most once, every call of
\* createContext by the cycle counted (the one of poll and those of
\* getLabelGroup).
C13_OneBuildPerCycle == cycle.builds <= 1

\* position of the first host of the fetched list with the UUID, 0 when none
FirstHostWith(uuid) ==
    LET hits == {j \in DOMAIN fnIn.hosts : fnIn.hosts[j].UUID = uuid} IN
    IF hits = {} THEN 0 ELSE CHOOSE j \in hits : \A k \in hits : j <= k

\* C14: createContext returns no context when any of its four fetches fails;
\* otherwise it returns a snapshot with one container per fetched container,
\* each with the first host of its HostUUID (the zero Host when there is
\* none), and one service per fetched service, each with exactly the
\* snapshot's containers of its stack and name, in the snapshot's order.
C14_ContextAllOrNothing ==
    fnOut.applied =>
        IF fnOut.failAt # "none" THEN fnOut.ctx = NoCtx
        ELSE LET c == fnOut.ctx IN
             /\ c.built
             /\ Len(c.Hosts) = Len(fnIn.hosts)
             /\ Len(c.Containers) = Len(fnIn.containers)
             /\ Len(c.Services) = Len(fnIn.services)
             /\ \A i \in DOMAIN c.Containers :
                 LET j == FirstHostWith(fnIn.containers[i].HostUUID) IN
                 /\ c.Containers[i].Name = fnIn.containers[i].Name
                 /\ c.Containers[i].Host =
                        IF j = 0 THEN ZeroHost ELSE c.Hosts[j]
                 /\ j # 0 => c.Hosts[j].Name = fnIn.hosts[j].Name
             /\ \A k \in DOMAIN c.Services :
                 LET s == fnIn.services[k] IN
                 c.Services[k].Containers =
                     SelectSeq(c.Containers,
                               LAMBDA x : x.Stack = s.StackName
                                          /\ x.Service = s.Name)

\* a snapshot was built from two hosts with one UUID and a container on it, a
\* container on no host, and a service with some but not all of the containers
C14_Witness ==
    /\ fnOut.applied
    /\ fnOut.failAt = "none"
    /\ \E i, j \in DOMAIN fnIn.hosts :
        i # j /\ fnIn.hosts[i].UUID = fnIn.hosts[j].UUID
    /\ \E i \in DOMAIN fnIn.containers :
        FirstHostWith(fnIn.containers[i].HostUUID) # 0
    /\ \E i \in DOMAIN fnIn.containers :
        FirstHostWith(fnIn.containers[i].HostUUID) = 0
    /\ \E k \in DOMAIN fnOut.ctx.Services :
        LET n == Len(fnOut.ctx.Services[k].Containers) IN
        0 < n /\ n < Len(fnOut.ctx.Containers)

\* the attributes of a container that hold a text
TextAttributes == {sName, sAddress, sStack, sService, sHealth, sState}

\* what a token stands for: the value of the attribute F for {{F}} and
\* {{.F}}, the value of the label for {{Labels.key}}, the token itself for
\* any other name
TokenValue(c, tok) ==
    LET name == SubSeq(tok, 3, Len(tok) - 2)
        F == IF name # <<>> /\ Head(name) = "." THEN Tail(name) ELSE name
        prefix == sLabels \o <<".">>
    IN  IF F \in TextAttributes THEN FieldString(c, F)
        ELSE IF HasPrefixAt(F, prefix, 0)
        THEN MapGet(c.Labels, From(F, Len(prefix)))
        ELSE tok

\* the command read from left to right, each token replaced by what it
\* stands for, every other character kept
RECURSIVE Substituted(_, _, _)
Substituted(c, s, i) ==
    IF i >= Len(s) THEN <<>>
    ELSE LET e == MatchAt(s, i) IN
         IF e >= 0
         THEN TokenValue(c, SubSeq(s, i + 1, e)) \o Substituted(c, s, e)
         ELSE <<s[i + 1]>> \o Substituted(c, s, i + 1)

\* C15: parseCmdTemplate returns the command with every attribute token and
\* every label token replaced by the container's value, and every token of
\* another name left as written.
C15_TokensSubstituted ==
    fnOut.applied => fnOut.ret = Substituted(fnIn.c, fnIn.command, 0)

\* a step of processTemplate in which a check command runs
CheckRuns ==
    /\ pc \in {"commands", "fanout"}
    /\ Positions(log', "check") # Positions(log, "check")

\* C16: when a check command runs for a template with a source and a
\* destination (its content changed, or processTemplate had returned), the
\* destination holds the new rendering already; the step of the check and of
\* its notify leaves the files as they are, and a failing check runs no notify.
C16_WriteBeforeCheck ==
    [][ (CheckRuns /\ HasTemplate(T))
        => /\ files[T.Dest].exists
           /\ files[T.Dest].content = Render(T.Source, ctx)
           /\ files' = files
           /\ (\E i \in Positions(log', "check") \ Positions(log, "check") :
                   ~log'[i].ok)
                => Positions(log', "notify") = Positions(log, "notify") ]_vars

\* the check of an updated template failed: the destination is there, no
\* notify ran
C16_Witness ==
    /\ DirectUpdated
    /\ \E i \in Positions(log, "check") : ~log[i].ok
    /\ Positions(log, "notify") = {}
    /\ files[LogT.Dest].exists
    /\ files[LogT.Dest].content # OldFile.content

\* C17: when a check command with the token {{staging}} runs for a template
\* whose destination was updated, the path put in place of the token is the
\* path of a file that exists then and holds the new rendering, after a
\* rename and after a fallback copy.
C17_StagingPathExists ==
    [][ (CheckRuns /\ HasTemplate(T) /\ Contains(T.CheckCmd, Tok(sStaging)))
        => /\ Staging # <<>>
           /\ \A i \in Positions(log', "check") \ Positions(log, "check") :
                Contains(log'[i].cmd, Staging)
           /\ Staging \in StagingPaths(stagingFiles)
           /\ StagingAt(stagingFiles, Staging).content = Render(T.Source, ctx)
      ]_vars

\* C18: when processTemplate has returned, with nil or with an error, no
\* staging file is left; so between the templates of a cycle and after every
\* cycle there is no staging file.
C18_NoStagingLeftover ==
    pc \in {"processTemplate", "select"} => stagingFiles = {}

\* the runner has caught up with the metadata state m: it has recorded its
\* version, and the destination of every template with a source and a
\* destination holds the rendering of its snapshot
CaughtUp(m) ==
    /\ Version = MetaStates[m].version
    /\ \A k \in DOMAIN config.Templates :
        LET t == config.Templates[k] IN
        HasTemplate(t)
            => /\ files[t.Dest].exists
               /\ files[t.Dest].content
                    = Render(t.Source, createContext(MetaStates[m], "none"))

\* C19: when nothing fails, no signal arrives and the ticker keeps firing, a
\* metadata service that stops changing, in state m, is caught up with in the
\* end, and for good.
C19_EventuallyCaughtUp ==
    \A m \in DOMAIN MetaStates : <>[](meta = m) => <>[]CaughtUp(m)

\* the step in which processTemplate returns from its commands
CommandsEnd == pc \in {"commands", "fanout"} /\ pc' \notin {"commands", "fanout"}

\* C20: whatever the outcome of the check and notify commands and of the
\* label-group resolution, processTemplate returns nil from its commands: the
\* cycle goes on with the next template, or poll returns nil after the last;
\* and a one-shot Run whose cycle processed templates and had no per-template
\* failure returns nil.
C20_CommandErrorsDropped ==
    /\ [](pc = "returned" /\ config.OneTime /\ cycle.processed # {}
          /\ cycle.failed = {} => pollErr = "nil")
    /\ [][ CommandsEnd
           => /\ cycle' = cycle
              /\ IF tIdx < Len(config.Templates)
                 THEN pc' = "processTemplate" /\ tIdx' = tIdx + 1
                      /\ pollErr' = pollErr
                 ELSE pc' = "select" /\ pollErr' = "nil" ]_vars

\* a one-shot Run has returned nil after a fanout with a failing pair
C20_Witness ==
    /\ pc = "returned"
    /\ config.OneTime
    /\ pollErr = "nil"
    /\ log # <<>>
    /\ LogT.NotifyLbl # <<>>
    /\ \E i \in Positions(log, "runCheckNotify") : log[i].err # "nil"

====
